---- MODULE Spec2Model ----
(***************************************************************************)
(* Smart-Summarizer: the map-reduce summarization orchestrator             *)
(* (src/summarizer.py), the section generator with its single retry        *)
(* (src/llm_client.py) and the Summarize button handler (src/app.py).      *)
(*                                                                         *)
(* Text.  A Python string is a sequence of tokens (integers):              *)
(*   SP  (0)   one space character                                         *)
(*   NL  (-1)  one other whitespace character (newline, tab, ...)          *)
(*   w > 0     one maximal run of non-whitespace characters (a "word"),    *)
(*             w = 4 * id + kind; id tells words apart, kind tells what     *)
(*             the regular expressions of the source see in it:            *)
(*               kind 0  letters only, 5 characters                        *)
(*               kind 1  ends with one of . ! ?, 6 characters              *)
(*               kind 2  holds one of . ! ? but does not end with it,      *)
(*                       6 characters                                      *)
(*               kind 3  a long run without punctuation, 1000 characters   *)
(* Two word tokens never stand side by side in a string (they would be     *)
(* one word); every operator below keeps that.                             *)
(***************************************************************************)
EXTENDS Integers, Sequences, FiniteSets, TLC

VARIABLES
    pc,               \* position of the Summarize handler / of the function under study
    raw_text,         \* app.py: the pasted or uploaded text
    target_words,     \* app.py: sidebar number input
    takeaways_count,  \* app.py: sidebar select box
    n_words,          \* summarize_document: n_words (and total_words)
    chunks,           \* summarize_document: chunks
    mini_summaries,   \* summarize_document: mini_summaries
    phase,            \* summarize_document: which generate_sections call is open
    gen,              \* the open generate_sections call (its arguments and progress)
    calls,            \* every generate_sections call made so far, in order
    last,             \* the generate_sections call that ended last (history)
    ui,               \* what the handler showed: warning / error / the result
    args,             \* arguments of the pure function under study
    ret               \* its result

vars == <<pc, raw_text, target_words, takeaways_count, n_words, chunks, mini_summaries,
          phase, gen, calls, last, ui, args, ret>>

----------------------------------------------------------------------------
(* Strings *)

SP == 0
NL == 0 - 1

Word(id, kind) == 4 * id + kind

IsWs(t) == t <= 0

Max(a, b) == IF a >= b THEN a ELSE b
Min(a, b) == IF a <= b THEN a ELSE b

\* re.findall(r"[.!?]", word): the punctuation characters of one token
PunctCount(t) == IF t > 0 /\ t % 4 \in {1, 2} THEN 1 ELSE 0

\* (?<=[.!?]): the token's last character is one of . ! ?
EndsWithTerminal(t) == t > 0 /\ t % 4 = 1

\* len() of a string, in characters
StrLen(s) ==
    LET n(k) == Len(SelectSeq(s, LAMBDA t : t > 0 /\ t % 4 = k))
    IN  Len(SelectSeq(s, IsWs)) + 5 * n(0) + 6 * n(1) + 6 * n(2) + 1000 * n(3)

\* str.split(): the words of a string
split(s) == SelectSeq(s, LAMBDA t : ~IsWs(t))

\* " ".join(words) for a list of words
JoinWords(ws) ==
    [i \in 1..(IF Len(ws) = 0 THEN 0 ELSE 2 * Len(ws) - 1) |->
        IF i % 2 = 1 THEN ws[(i + 1) \div 2] ELSE SP]

\* sep.join(items) for a list of strings (items lo..hi, joined by halves)
RECURSIVE JoinRange(_, _, _, _)
JoinRange(sep, items, lo, hi) ==
    IF lo > hi THEN <<>>
    ELSE IF lo = hi THEN items[lo]
    ELSE LET mid == (lo + hi) \div 2
         IN  JoinRange(sep, items, lo, mid) \o sep \o JoinRange(sep, items, mid + 1, hi)

join(sep, items) == JoinRange(sep, items, 1, Len(items))

\* positions of the words of s, ascending
WordIdx(s) == SelectSeq([i \in 1..Len(s) |-> i], LAMBDA i : ~IsWs(s[i]))

\* str.strip()
strip(s) ==
    LET w == WordIdx(s)
    IN  IF Len(w) = 0 THEN <<>> ELSE SubSeq(s, w[1], w[Len(w)])

\* re.sub(r"\s+", " ", s or "").strip()
_normalize_whitespace(s) ==
    LET w == WordIdx(s)
        lastw == IF Len(w) = 0 THEN 0 ELSE w[Len(w)]
        keep == SelectSeq([i \in 1..Len(s) |-> i],
                    LAMBDA i : \/ ~IsWs(s[i])
                               \/ /\ i < lastw
                                  /\ i > 1
                                  /\ ~IsWs(s[i - 1]))
    IN  [j \in 1..Len(keep) |-> IF IsWs(s[keep[j]]) THEN SP ELSE s[keep[j]]]

----------------------------------------------------------------------------
(* summarizer.py: _split_into_sentences *)

\* re.split(r"(?<=[.!?])\s+", cleaned) on a normalized string: every
\* whitespace run is one SP, and none is leading or trailing
re_split(cleaned) ==
    LET cut == SelectSeq([i \in 1..Len(cleaned) |-> i],
                   LAMBDA i : IsWs(cleaned[i]) /\ i > 1 /\ EndsWithTerminal(cleaned[i - 1]))
        from(k) == IF k = 1 THEN 1 ELSE cut[k - 1] + 1
        to(k) == IF k = Len(cut) + 1 THEN Len(cleaned) ELSE cut[k] - 1
    IN  [k \in 1..(Len(cut) + 1) |-> SubSeq(cleaned, from(k), to(k))]

\* a variant that merges nothing: every part is a sentence
MergeStepNoMerge(st, p) ==
    [merged |-> Append(st.merged, strip(p)), buf |-> <<>>]

\* the loop over parts: st = [merged, buf]
MergeStep(st, p) ==
    IF Len(split(p)) < 4
    THEN LET buf == strip(st.buf \o <<SP>> \o p)
         IN  IF Len(split(buf)) >= 4
             THEN [merged |-> Append(st.merged, buf), buf |-> <<>>]
             ELSE [merged |-> st.merged, buf |-> buf]
    ELSE LET m == IF st.buf # <<>> THEN Append(st.merged, st.buf) ELSE st.merged
         IN  [merged |-> Append(m, strip(p)), buf |-> <<>>]

\* for p in parts[lo..hi], from state st.  The range is run by halves, and the
\* test on the first half's state makes its evaluation strict.
RECURSIVE MergeLoop(_, _, _, _)
MergeLoop(parts, lo, hi, st) ==
    IF lo > hi THEN st
    ELSE IF lo = hi THEN MergeStep(st, parts[lo])
    ELSE LET mid == (lo + hi) \div 2
             left == MergeLoop(parts, lo, mid, st)
         IN  IF Len(left.merged) >= 0 THEN MergeLoop(parts, mid + 1, hi, left) ELSE left

_split_into_sentences(text) ==
    LET cleaned == _normalize_whitespace(text)
        npunct == Len(SelectSeq(cleaned, LAMBDA t : PunctCount(t) = 1))
    IN  IF npunct < Max(1, StrLen(cleaned) \div 1000)
        THEN LET words == split(cleaned)
                 n == Len(words)
             IN  [k \in 1..((n + 29) \div 30) |->
                     JoinWords(SubSeq(words, 30 * (k - 1) + 1, Min(n, 30 * k)))]
        ELSE LET st == LET parts == re_split(cleaned)
                       IN  MergeLoop(parts, 1, Len(parts), [merged |-> <<>>, buf |-> <<>>])
                 merged == IF st.buf # <<>> THEN Append(st.merged, st.buf) ELSE st.merged
             IN  SelectSeq(merged, LAMBDA p : p # <<>>)

----------------------------------------------------------------------------
(* summarizer.py: _chunk_by_words *)

\* a variant that takes the overlap from the front: words[:n]
FirstWords(words, n) == SubSeq(words, 1, Min(n, Len(words)))

\* words[-n:] for n > 0
LastWords(words, n) == SubSeq(words, Max(1, Len(words) - n + 1), Len(words))

\* a variant that never closes a chunk
ChunkStepNoFlush(st, sent, target_chunk_words, overlap_words) ==
    [chunks |-> st.chunks,
     current |-> Append(st.current, sent),
     current_words |-> st.current_words + Len(split(sent))]

\* the loop over sentences: st = [chunks, current, current_words]
ChunkStep(st, sent, target_chunk_words, overlap_words) ==
    LET w == Len(split(sent))
    IN  IF st.current_words + w > target_chunk_words /\ st.current # <<>>
        THEN IF overlap_words > 0
             THEN LET tail == JoinWords(LastWords(split(join(<<SP>>, st.current)), overlap_words))
                  IN  [chunks |-> Append(st.chunks, join(<<SP>>, st.current)),
                       current |-> <<tail, sent>>,
                       current_words |-> Len(split(tail)) + w]
             ELSE [chunks |-> Append(st.chunks, join(<<SP>>, st.current)),
                   current |-> <<sent>>,
                   current_words |-> w]
        ELSE [chunks |-> st.chunks,
              current |-> Append(st.current, sent),
              current_words |-> st.current_words + w]

\* for sent in sentences[lo..hi], from state st.  The range is run by halves,
\* and the test on the first half's state makes its evaluation strict.
RECURSIVE ChunkLoop(_, _, _, _, _, _)
ChunkLoop(sentences, lo, hi, st, target_chunk_words, overlap_words) ==
    IF lo > hi THEN st
    ELSE IF lo = hi THEN ChunkStep(st, sentences[lo], target_chunk_words, overlap_words)
    ELSE LET mid == (lo + hi) \div 2
             left == ChunkLoop(sentences, lo, mid, st, target_chunk_words, overlap_words)
         IN  IF left.current_words >= 0
             THEN ChunkLoop(sentences, mid + 1, hi, left, target_chunk_words, overlap_words)
             ELSE left

_chunk_by_words(sentences, target_chunk_words, overlap_words) ==
    LET st == ChunkLoop(sentences, 1, Len(sentences),
                        [chunks |-> <<>>, current |-> <<>>, current_words |-> 0],
                        target_chunk_words, overlap_words)
        all == IF st.current # <<>>
               THEN Append(st.chunks, join(<<SP>>, st.current))
               ELSE st.chunks
        norm == [k \in 1..Len(all) |-> _normalize_whitespace(all[k])]
    IN  SelectSeq(norm, LAMBDA c : c # <<>>)

----------------------------------------------------------------------------------------------------------------------------------------
(* Python float arithmetic (IEEE 754 binary64, round to nearest, ties to     *)
(* even), as far as _proportional_words uses it.  A non-negative float is  *)
(* [m, e]: m its significant bits, most significant first (<<>> for 0.0),  *)
(* e the binary exponent of the last bit of m; the value is m * 2^e.       *)
(* Integers stay below 2^31 throughout (operands below 46340).             *)

\* the binary digits of 0 <= n < 2^30, most significant first
BitsOf(n) ==
    LET len == CHOOSE k \in 0..30 : 2^k > n /\ (k = 0 \/ 2^(k - 1) <= n)
    IN  [i \in 1..len |-> (n \div 2^(len - i)) % 2]

\* the integer a bit string of at most 30 bits stands for
RECURSIVE IntOf(_)
IntOf(bits) ==
    IF Len(bits) = 0 THEN 0
    ELSE IF Len(bits) = 1 THEN bits[1]
    ELSE LET h == Len(bits) \div 2
         IN  IntOf(SubSeq(bits, 1, h)) * 2^(Len(bits) - h)
                 + IntOf(SubSeq(bits, h + 1, Len(bits)))

Abs(n) == IF n < 0 THEN 0 - n ELSE n

\* bits without its leading zeros
DropZeros(bits) ==
    LET ones == SelectSeq([i \in 1..Len(bits) |-> i], LAMBDA i : bits[i] = 1)
    IN  IF Len(ones) = 0 THEN <<>> ELSE SubSeq(bits, ones[1], Len(bits))

\* round an exact value m * 2^e (plus a non-zero remainder below the last
\* bit when sticky) to 53 significant bits
FloatRound(m, e, sticky) ==
    IF Len(m) <= 53 THEN [m |-> m, e |-> e]
    ELSE LET keep == SubSeq(m, 1, 53)
             rest == sticky \/ \E i \in 55..Len(m) : m[i] = 1
             up == m[54] = 1 /\ (rest \/ keep[53] = 1)
             e2 == e + Len(m) - 53
         IN  IF ~up THEN [m |-> keep, e |-> e2]
             ELSE IF \A i \in 1..53 : keep[i] = 1
             THEN [m |-> [i \in 1..53 |-> IF i = 1 THEN 1 ELSE 0], e |-> e2 + 1]
             ELSE LET z == CHOOSE i \in 1..53 :
                               keep[i] = 0 /\ \A j \in (i + 1)..53 : keep[j] = 1
                  IN  [m |-> [i \in 1..53 |-> IF i < z THEN keep[i]
                                              ELSE IF i = z THEN 1 ELSE 0],
                       e |-> e2]

\* 2^i mod b
RECURSIVE PowMod(_, _)
PowMod(i, b) ==
    IF i = 0 THEN 1 % b
    ELSE LET h == PowMod(i \div 2, b)
         IN  (((h * h) % b) * (IF i % 2 = 1 THEN 2 ELSE 1)) % b

\* a / b for integers a >= 0, b > 0 (true division, correctly rounded):
\* long division; the remainder after i fraction bits is (a mod b) * 2^i mod b
FloatDiv(a, b) ==
    LET int == BitsOf(a \div b)
        rem(i) == ((a % b) * PowMod(i, b)) % b
        frac == [i \in 1..72 |-> (2 * rem(i - 1)) \div b]
        m == DropZeros(int \o frac)
        f == 72 - (Len(m) - 55)
    IN  IF m = <<>> THEN [m |-> <<>>, e |-> 0]
        ELSE FloatRound(SubSeq(m, 1, 55), 0 - f, rem(f) # 0)

\* a bit string as 12-bit limbs, least significant limb first
Limbs(bits) ==
    LET n == (Len(bits) + 11) \div 12
        bit(i) == IF i >= 0 /\ i < Len(bits) THEN bits[Len(bits) - i] ELSE 0
    IN  [j \in 1..n |-> IntOf([k \in 1..12 |-> bit(12 * (j - 1) + 12 - k)])]

\* schoolbook multiplication of limb strings: column k, then the carries
RECURSIVE MulCarry(_, _, _, _, _)
MulCarry(A, B, k, carry, acc) ==
    IF k > Len(A) + Len(B) THEN acc
    ELSE LET col(i) == IF i >= 1 /\ i <= Len(A) /\ k - i + 1 >= 1 /\ k - i + 1 <= Len(B)
                       THEN A[i] * B[k - i + 1] ELSE 0
             s == col(1) + col(2) + col(3) + col(4) + col(5) + carry
         IN  MulCarry(A, B, k + 1, s \div 4096, Append(acc, s % 4096))

\* the exact product of two bit strings of at most 60 bits each
MulBits(x, y) ==
    LET p == MulCarry(Limbs(x), Limbs(y), 1, 0, <<>>)
    IN  DropZeros([i \in 1..(12 * Len(p)) |->
            (p[Len(p) - ((i - 1) \div 12)] \div 2^(11 - ((i - 1) % 12))) % 2])

FloatMul(x, y) ==
    IF x.m = <<>> \/ y.m = <<>> THEN [m |-> <<>>, e |-> 0]
    ELSE FloatRound(MulBits(x.m, y.m), x.e + y.e, FALSE)

\* float(n) for an integer 0 <= n < 2^30
FloatOfInt(n) == [m |-> BitsOf(n), e |-> 0]

\* the literal 1.2: 0x3FF3333333333333
Float_1_2 == [m |-> [i \in 1..53 |-> IF i = 1 \/ i % 4 \in {0, 1} THEN 1 ELSE 0],
              e |-> 0 - 52]

\* int(x) for 0 <= x < 2^30
FloatTrunc(x) ==
    IF x.m = <<>> \/ Len(x.m) + x.e <= 0 THEN 0
    ELSE IF x.e >= 0 THEN IntOf(x.m) * 2^(x.e)
    ELSE IntOf(SubSeq(x.m, 1, Len(x.m) + x.e))

----------------------------------------------------------------------------
(* summarizer.py: _proportional_words *)

\* a variant without the 1.2 cushion
_proportional_words_plain(total_words, chunk_words, final_target) ==
    IF total_words <= 0
    THEN Max(50, Min(final_target, 2000))
    ELSE LET ratio == FloatDiv(Abs(chunk_words), total_words)
             prod == FloatMul(FloatOfInt(Abs(final_target)), ratio)
             sign == IF (chunk_words < 0) # (final_target < 0) THEN 0 - 1 ELSE 1
         IN  Max(80, Min(sign * FloatTrunc(prod), Max(200, final_target)))

_proportional_words(total_words, chunk_words, final_target) ==
    IF total_words <= 0
    THEN Max(50, Min(final_target, 2000))
    ELSE LET ratio == FloatDiv(Abs(chunk_words), total_words)
             prod == FloatMul(FloatMul(FloatOfInt(Abs(final_target)), ratio), Float_1_2)
             sign == IF (chunk_words < 0) # (final_target < 0) THEN 0 - 1 ELSE 1
             alloc == sign * FloatTrunc(prod)
         IN  Max(80, Min(alloc, Max(200, final_target)))

----------------------------------------------------------------------------
(* JSON values of a model response, and what generate_sections returns.    *)
(* A value is [t, v]: t its type, v its content (a string for "str", a     *)
(* list of strings for "list", <<>> otherwise).                            *)

Missing == [t |-> "missing", v |-> <<>>]   \* the key is absent
Null == [t |-> "null", v |-> <<>>]         \* JSON null (Python None)
Other == [t |-> "other", v |-> <<>>]       \* a number, an object, ...; for key_takeaways also a string
Str(s) == [t |-> "str", v |-> s]
List(items) == [t |-> "list", v |-> items]

\* the largest takeaway count the sidebar offers in the model (app.py: 10)
MaxTakeaways == 2

\* two summaries the model may answer with, and the i-th takeaway
S1 == <<Word(9001, 0), SP, Word(9002, 1)>>
S2 == <<Word(9003, 1)>>
Takeaway(i) == <<Word(9100 + i, 0)>>

SummaryValues == {Missing, Null, Str(<<>>), Str(<<SP>>), Str(S1), Str(S2)}

TakeawayValues ==
    {Missing, Null, Other}
        \cup {List([i \in 1..n |-> Takeaway(i)]) : n \in 0..(MaxTakeaways + 1)}

\* What one invocation of the generation endpoint can come back with:
\*   upstream_error  generate_content (or resp.text) raises
\*   unparsable      _extract_json raises (None, or no JSON in the text)
\*   nonobject       the text is JSON but not an object (a list, a number, ...)
\*   object          a JSON object with these summary and key_takeaways
Responses ==
    {[kind |-> k, summary |-> Missing, key_takeaways |-> Missing] :
        k \in {"upstream_error", "unparsable", "nonobject"}}
        \cup {[kind |-> "object", summary |-> su, key_takeaways |-> kt] :
                su \in SummaryValues, kt \in TakeawayValues}

NoData == [summary |-> Missing, key_takeaways |-> Missing]

----------------------------------------------------------------------------
(* llm_client.py: GeminiClient.generate_sections *)

\* _call, for a response that parsed to an object: null key_takeaways become []
CallData(r) ==
    [summary |-> r.summary,
     key_takeaways |-> IF r.key_takeaways.t = "null" THEN List(<<>>) ELSE r.key_takeaways]

\* kt = data.get("key_takeaways", []); if not isinstance(kt, list): kt = []
KtList(data) == IF data.key_takeaways.t = "list" THEN data.key_takeaways.v ELSE <<>>

\* the exception a response that is no object ends the call with
ErrorOf(r) ==
    CASE r.kind = "upstream_error" -> "upstream"
      [] r.kind = "unparsable" -> "parse"
      [] OTHER -> "type"

\* data.setdefault("summary", ""); data.setdefault("key_takeaways", [])
SetDefaults(data) ==
    [summary |-> IF data.summary.t = "missing" THEN Str(<<>>) ELSE data.summary,
     key_takeaways |-> IF data.key_takeaways.t = "missing" THEN List(<<>>)
                       ELSE data.key_takeaways]

\* a variant that validates every count, negative ones included
CountMismatchAnyCount(k, data) == Len(KtList(data)) # k

\* if len(kt) != takeaways_count, for a count that is validated
CountMismatch(k, data) == k >= 0 /\ Len(KtList(data)) # k

\* kt + [""] * (k - len(kt)), or kt[:k]
PadTruncate(kt, k) ==
    IF Len(kt) < k THEN kt \o [i \in 1..(k - Len(kt)) |-> <<>>]
    ELSE IF Len(kt) > k THEN SubSeq(kt, 1, k)
    ELSE kt

\* generate_sections from the first response on: retry, raise or return
GenAfterFirst(k, r) ==
    IF r.kind # "object"
    THEN [outcome |-> "raise", error |-> ErrorOf(r), data |-> NoData]
    ELSE IF CountMismatch(k, CallData(r))
    THEN [outcome |-> "retry", error |-> "", data |-> NoData]
    ELSE [outcome |-> "return", error |-> "", data |-> SetDefaults(CallData(r))]

\* a variant that raises when the retry's count is wrong again
GenAfterRetryStrict(k, r) ==
    IF r.kind # "object"
    THEN [outcome |-> "raise", error |-> ErrorOf(r), data |-> NoData]
    ELSE IF Len(KtList(CallData(r))) # k
    THEN [outcome |-> "raise", error |-> "mismatch", data |-> NoData]
    ELSE [outcome |-> "return", error |-> "", data |-> SetDefaults(CallData(r))]

\* generate_sections from the retry's response on: raise or return
GenAfterRetry(k, r) ==
    IF r.kind # "object"
    THEN [outcome |-> "raise", error |-> ErrorOf(r), data |-> NoData]
    ELSE [outcome |-> "return", error |-> "",
          data |-> SetDefaults([summary |-> CallData(r).summary,
                                key_takeaways |-> List(PadTruncate(KtList(CallData(r)), k))])]

----------------------------------------------------------------------------
(* summarizer.py: summarize_document, and app.py: main (the Summarize      *)
(* button).  The handler runs until it blocks in the generation endpoint;  *)
(* each answer of the endpoint runs it on to the next invocation or to its *)
(* end.                                                                    *)

NoCall == [text |-> <<>>, summary_words |-> 0, takeaways_count |-> 0,
           invocations |-> 0, first |-> Missing, first_kind |-> ""]

\* a generate_sections call up to its first invocation of the endpoint
OpenCall(text, summary_words, k) ==
    [text |-> text, summary_words |-> summary_words, takeaways_count |-> k,
     invocations |-> 1, first |-> Missing, first_kind |-> ""]

LogCall(text, summary_words, k) ==
    [text |-> text, summary_words |-> summary_words, takeaways_count |-> k,
     invocations |-> 1, status |-> "open"]

NoLast == [takeaways_count |-> 0, invocations |-> 0, first_kind |-> "",
           second_kind |-> "", outcome |-> "", data |-> NoData]

NoUi == [warnings |-> {}, status |-> "none", error |-> "", summary |-> <<>>]

\* the last generate_sections call of the log, closed with this status
CloseLast(log, status, invocations) ==
    [log EXCEPT ![Len(log)] = [@ EXCEPT !.status = status, !.invocations = invocations]]

\* a variant that keeps the model's summary
ShortResultFromModel(text, mini) ==
    [summary |-> mini.summary, key_takeaways |-> mini.key_takeaways]

\* the short-input result: the text itself, the model's takeaways
ShortResult(text, mini) ==
    [summary |-> Str(text), key_takeaways |-> mini.key_takeaways]

\* summary_words of the short-input call
ShortBudget(target, n) == Min(target, Max(30, n))

\* s.strip() is truthy (s a string)
NonBlank(s) == strip(s.v) # <<>>

\* "\n\n".join(s for s in mini_summaries if s.strip())
Combined(minis) ==
    LET kept == SelectSeq(minis, NonBlank)
    IN  join(<<NL, NL>>, [i \in 1..Len(kept) |-> kept[i].v])

\* s.strip() raises for a summary that is no string
AllStrings(minis) == \A i \in 1..Len(minis) : minis[i].t = "str"

\* main, after summarize_document returned result
Display(u, result) ==
    IF result.summary.t = "str"
    THEN [u EXCEPT !.status = "shown", !.summary = strip(result.summary.v)]
    ELSE [u EXCEPT !.status = "uncaught", !.error = "type"]

\* a variant that tests "not raw_text" only
IsEmpty(raw) == raw = <<>>

\* main: not raw_text or not raw_text.strip()
IsBlank(raw) == strip(raw) = <<>>

\* summarize_document raised e: main shows st.error and returns
Propagate(e) ==
    /\ pc' = "done"
    /\ ui' = [ui EXCEPT !.status = "error", !.error = e]
    /\ gen' = NoCall
    /\ UNCHANGED <<raw_text, target_words, takeaways_count, n_words, chunks, mini_summaries,
                   phase, args, ret>>

\* the generate_sections call that was open returned data
Continue(data) ==
    CASE phase = "direct" ->
            /\ pc' = "done"
            /\ ret' = data
            /\ gen' = NoCall
            /\ UNCHANGED <<raw_text, target_words, takeaways_count, n_words, chunks,
                           mini_summaries, phase, ui, args>>
      [] phase = "short" ->
            /\ pc' = "done"
            /\ ret' = ShortResult(gen.text, data)
            /\ ui' = Display(ui, ShortResult(gen.text, data))
            /\ gen' = NoCall
            /\ UNCHANGED <<raw_text, target_words, takeaways_count, n_words, chunks,
                           mini_summaries, phase, args>>
      [] phase = "map" /\ Len(mini_summaries) + 1 < Len(chunks) ->
            LET next == chunks[Len(mini_summaries) + 2]
                budget == _proportional_words(n_words, Len(split(next)), target_words)
            IN  /\ mini_summaries' = Append(mini_summaries, data.summary)
                /\ gen' = OpenCall(next, budget, 0)
                /\ UNCHANGED <<pc, raw_text, target_words, takeaways_count, n_words, chunks,
                               phase, ui, args, ret>>
      [] phase = "map" /\ Len(mini_summaries) + 1 >= Len(chunks) ->
            LET minis == Append(mini_summaries, data.summary)
            IN  /\ mini_summaries' = minis
                /\ IF AllStrings(minis)
                   THEN /\ gen' = OpenCall(Combined(minis), target_words, takeaways_count)
                        /\ phase' = "reduce"
                        /\ UNCHANGED <<pc, ui>>
                   ELSE /\ gen' = NoCall
                        /\ pc' = "done"
                        /\ ui' = [ui EXCEPT !.status = "error", !.error = "type"]
                        /\ UNCHANGED phase
                /\ UNCHANGED <<raw_text, target_words, takeaways_count, n_words, chunks, args, ret>>
      [] phase = "reduce" ->
            /\ pc' = "done"
            /\ ret' = data
            /\ ui' = Display(ui, data)
            /\ gen' = NoCall
            /\ UNCHANGED <<raw_text, target_words, takeaways_count, n_words, chunks,
                           mini_summaries, phase, args>>

\* the log after the open call returned: closed, and the next call (if the
\* orchestrator made one) opened
LogAfterReturn(invocations) ==
    LET closed == CloseLast(calls, "returned", invocations)
    IN  IF gen'.invocations = 0 THEN closed
        ELSE Append(closed, LogCall(gen'.text, gen'.summary_words, gen'.takeaways_count))

\* the endpoint answers the first invocation of the open call
Respond(r) ==
    /\ pc = "calling"
    /\ gen.invocations = 1
    /\ LET res == GenAfterFirst(gen.takeaways_count, r)
       IN  CASE res.outcome = "retry" ->
                    /\ gen' = [gen EXCEPT !.invocations = 2, !.first = r.key_takeaways,
                                          !.first_kind = r.kind]
                    /\ calls' = [calls EXCEPT ![Len(calls)].invocations = 2]
                    /\ UNCHANGED <<pc, raw_text, target_words, takeaways_count, n_words, chunks,
                                   mini_summaries, phase, last, ui, args, ret>>
             [] res.outcome = "raise" ->
                    /\ last' = [takeaways_count |-> gen.takeaways_count, invocations |-> 1,
                                first_kind |-> r.kind, second_kind |-> "", outcome |-> "raise", data |-> NoData]
                    /\ calls' = CloseLast(calls, "raised", 1)
                    /\ Propagate(res.error)
             [] res.outcome = "return" ->
                    /\ last' = [takeaways_count |-> gen.takeaways_count, invocations |-> 1,
                                first_kind |-> r.kind, second_kind |-> "", outcome |-> "return", data |-> res.data]
                    /\ Continue(res.data)
                    /\ calls' = LogAfterReturn(1)

\* the endpoint answers the retry of the open call
RetryRespond(r) ==
    /\ pc = "calling"
    /\ gen.invocations = 2
    /\ LET res == GenAfterRetry(gen.takeaways_count, r)
       IN  CASE res.outcome = "raise" ->
                    /\ last' = [takeaways_count |-> gen.takeaways_count, invocations |-> 2,
                                first_kind |-> gen.first_kind, second_kind |-> r.kind, outcome |-> "raise", data |-> NoData]
                    /\ calls' = CloseLast(calls, "raised", 2)
                    /\ Propagate(res.error)
             [] res.outcome = "return" ->
                    /\ last' = [takeaways_count |-> gen.takeaways_count, invocations |-> 2,
                                first_kind |-> gen.first_kind, second_kind |-> r.kind, outcome |-> "return", data |-> res.data]
                    /\ Continue(res.data)
                    /\ calls' = LogAfterReturn(2)

\* app.py main: the Summarize button is pressed
Summarize ==
    /\ pc = "idle"
    /\ IF IsBlank(raw_text)
       THEN /\ pc' = "done"
            /\ ui' = [ui EXCEPT !.warnings = {"provide_text"}]
            /\ UNCHANGED <<n_words, chunks, phase, gen, calls>>
       ELSE LET text == _normalize_whitespace(raw_text)
                count == Len(split(text))
                cs == _chunk_by_words(_split_into_sentences(text), 2400, 200)
            IN  /\ pc' = "calling"
                /\ ui' = [ui EXCEPT !.warnings =
                             IF Len(split(raw_text)) < 20 THEN {"very_short"} ELSE {}]
                /\ n_words' = count
                /\ IF count < 60
                   THEN /\ gen' = OpenCall(text, ShortBudget(target_words, count),
                                           takeaways_count)
                        /\ phase' = "short"
                        /\ UNCHANGED chunks
                   ELSE /\ chunks' = cs
                        /\ gen' = OpenCall(cs[1],
                                     _proportional_words(count, Len(split(cs[1])),
                                                         target_words), 0)
                        /\ phase' = "map"
                /\ calls' = <<LogCall(gen'.text, gen'.summary_words, gen'.takeaways_count)>>
    /\ UNCHANGED <<raw_text, target_words, takeaways_count, mini_summaries, last, args, ret>>

----------------------------------------------------------------------------
(* Inputs *)

\* A text of n words, numbered from first on.  Every period-th word ends a
\* sentence (period = 0: no punctuation at all).  A messy text has leading
\* and trailing whitespace and two whitespace characters between words.
TextFrom(first, n, period, messy) ==
    LET w(j) == Word(first + j - 1, IF period > 0 /\ j % period = 0 THEN 1 ELSE 0)
    IN  IF n = 0 THEN (IF messy THEN <<NL, SP>> ELSE <<>>)
        ELSE IF messy
        THEN [i \in 1..(3 * n + 1) |->
                 IF i = 1 THEN SP
                 ELSE IF i % 3 = 2 THEN w((i + 1) \div 3)
                 ELSE IF i % 3 = 0 THEN NL ELSE SP]
        ELSE [i \in 1..(2 * n - 1) |-> IF i % 2 = 1 THEN w((i + 1) \div 2) ELSE SP]

Text(n, period, messy) == TextFrom(1, n, period, messy)

\* a text that needs two chunks: 26 sentences of 100 words
LongDoc == Text(2600, 100, TRUE)

\* the texts the user may paste: blank ones, short ones on both sides of the
\* 20 and 60 word thresholds, and one that needs more than one chunk
Docs ==
    {<<>>, <<SP>>, <<NL, SP>>}
        \cup {Text(n, p, m) : n \in {1, 19, 20, 59, 60, 61}, p \in {0, 7}, m \in BOOLEAN}
        \cup {LongDoc}

\* app.py: number_input(min_value=50, max_value=2000, step=50)
TargetChoices == {50, 200}

----------------------------------------------------------------------------
(* The application: one press of Summarize *)

Init ==
    /\ pc = "idle"
    /\ raw_text \in Docs
    /\ target_words \in TargetChoices
    /\ takeaways_count \in 1..MaxTakeaways
    /\ raw_text = LongDoc => target_words = 200 /\ takeaways_count = 1
    /\ n_words = 0
    /\ chunks = <<>>
    /\ mini_summaries = <<>>
    /\ phase = "none"
    /\ gen = NoCall
    /\ calls = <<>>
    /\ last = NoLast
    /\ ui = NoUi
    /\ args = <<>>
    /\ ret = NoData

Answer == \E r \in Responses : Respond(r)

AnswerRetry == \E r \in Responses : RetryRespond(r)

Next == Summarize \/ Answer \/ AnswerRetry

Spec == Init /\ [][Next]_vars

----------------------------------------------------------------------------
(* generate_sections called on its own, with any takeaway count from -1 up *)
(* (a negative count is not validated; None, which is not validated        *)
(* either, is left out)                                                    *)

InitGen ==
    /\ pc = "calling"
    /\ phase = "direct"
    /\ \E k \in (0 - 1)..(MaxTakeaways + 1), sw \in TargetChoices :
           /\ gen = OpenCall(S1, sw, k)
           /\ calls = <<LogCall(S1, sw, k)>>
    /\ raw_text = <<>>
    /\ target_words = 0
    /\ takeaways_count = 0
    /\ n_words = 0
    /\ chunks = <<>>
    /\ mini_summaries = <<>>
    /\ last = NoLast
    /\ ui = NoUi
    /\ args = <<>>
    /\ ret = NoData

NextGen == Answer \/ AnswerRetry

SpecGen == InitGen /\ [][NextGen]_vars

----------------------------------------------------------------------------
(* Properties of generate_sections (SpecGen) *)

\* the call that ended last returned a list of exactly the requested length
ReturnedExactly(k) ==
    /\ last.data.key_takeaways.t = "list"
    /\ Len(last.data.key_takeaways.v) = k

\* C1: every generate_sections call with a requested count k >= 0 that
\* returns, returns key_takeaways as a sequence of exactly k elements,
\* whatever the first response and the retry's response held.
C1_ExactCount ==
    (last.outcome = "return" /\ last.takeaways_count >= 0)
        => ReturnedExactly(last.takeaways_count)

\* C4: one call invokes the endpoint at most twice; it invokes it a second
\* time only after a first response that parsed to an object whose
\* key_takeaways was not a list of the requested length, for a count >= 0;
\* a response that cannot be parsed ends the call with the parse error and
\* without another invocation; after the retry the call ends, whatever the
\* count of the retry's answer.
C4_RetryDiscipline ==
    /\ gen.invocations <= 2
    /\ last.invocations <= 2
    /\ \A i \in 1..Len(calls) : calls[i].invocations <= 2
    /\ gen.invocations = 2 =>
          /\ gen.first_kind = "object"
          /\ gen.takeaways_count >= 0
          /\ ~(gen.first.t = "list" /\ Len(gen.first.v) = gen.takeaways_count)
    /\ last.invocations = 2 => last.first_kind = "object" /\ last.takeaways_count >= 0
    /\ last.first_kind = "unparsable" =>
          last.invocations = 1 /\ last.outcome = "raise" /\ ui.error = "parse"
    /\ last.second_kind = "unparsable" =>
          last.invocations = 2 /\ last.outcome = "raise" /\ ui.error = "parse"
    /\ (last.invocations = 2 /\ last.outcome = "return") =>
          ReturnedExactly(last.takeaways_count)

\* the retry answered with one takeaway where two were asked for, and the
\* call returned the one padded with an empty string
C4_Witness ==
    /\ last.invocations = 2
    /\ last.outcome = "return"
    /\ last.takeaways_count = 2
    /\ last.data.key_takeaways = List(<<Takeaway(1), <<>>>>)

\* C5 as stated: once the first response parsed with a wrong count (the call
\* went on to its retry), the call returns a result and does not raise.
C5_AlwaysRecovers ==
    last.invocations = 2 => last.outcome = "return"

\* C5, amended: after a first response with a wrong count the call returns a
\* result of exactly the requested count if and only if the retry's response
\* parses to a JSON object, whatever its count; otherwise the call raises
\* the retry's own error (upstream, parse or type), never a count error.
C5_RecoversWhenRetryParses ==
    last.invocations = 2 =>
        /\ last.second_kind = "object" <=> last.outcome = "return"
        /\ last.outcome = "return" => ReturnedExactly(last.takeaways_count)
        /\ last.outcome = "raise" =>
              /\ pc = "done"
              /\ ui.status = "error"
              /\ ui.error = ErrorOf([kind |-> last.second_kind])

\* the retry answered with three takeaways where one was asked for, and the
\* call returned the first of them
C5_Witness ==
    /\ last.invocations = 2
    /\ last.second_kind = "object"
    /\ last.outcome = "return"
    /\ last.takeaways_count = 1
    /\ last.data.key_takeaways = List(<<Takeaway(1)>>)
    /\ ret = last.data

----------------------------------------------------------------------------
(* Properties of the application (Spec) *)

\* the text holds no word: it is empty or whitespace only
NoWords(s) == \A i \in 1..Len(s) : s[i] \in {SP, NL}

\* the words of s, single spaces between them
Normalized(s) == JoinWords(split(s))

\* C2: when the normalized input has fewer than 60 words and the generator
\* call returned, the result's summary is the whitespace-normalized input,
\* whatever target_words is and whatever summary the generator answered
\* with; key_takeaways are the generator's.
C2_ShortIdentity ==
    (pc = "done" /\ last.outcome = "return" /\ Len(split(raw_text)) < 60) =>
        /\ ret.summary = Str(Normalized(raw_text))
        /\ ret.key_takeaways = last.data.key_takeaways
        /\ Len(calls) = 1
        /\ ui.status = "shown"
        /\ ui.summary = Normalized(raw_text)

\* a text of 59 words with untidy whitespace, a target of 50 words, and a
\* generator that answered with a summary of its own
C2_Witness ==
    /\ pc = "done"
    /\ last.outcome = "return"
    /\ Len(split(raw_text)) = 59
    /\ raw_text # Normalized(raw_text)
    /\ target_words = 50
    /\ last.data.summary = Str(S1)
    /\ ret.summary = Str(Normalized(raw_text))
    /\ ret.key_takeaways = List(<<Takeaway(1), Takeaway(2)>>)

\* the mini-summaries that are not the empty string, joined by "\n\n"
NonEmptyJoined(minis) ==
    LET kept == SelectSeq(minis, LAMBDA m : m.v # <<>>)
    IN  join(<<NL, NL>>, [i \in 1..Len(kept) |-> kept[i].v])

\* C3: for an input of 60 or more words that yields N chunks, when no
\* generator call failed the handler made exactly N + 1 calls: one map call
\* per chunk in chunk order with takeaways_count 0, then one reduce call with
\* the user's target_words and takeaways_count on the non-empty
\* mini-summaries joined by a blank line; the reduce call's result is what
\* is returned.
C3_MapThenReduce ==
    (/\ pc = "done"
     /\ Len(split(raw_text)) >= 60
     /\ \A i \in 1..Len(calls) : calls[i].status = "returned") =>
        /\ Len(calls) = Len(chunks) + 1
        /\ \A i \in 1..Len(chunks) :
              calls[i].text = chunks[i] /\ calls[i].takeaways_count = 0
        /\ calls[Len(calls)].text = NonEmptyJoined(mini_summaries)
        /\ calls[Len(calls)].summary_words = target_words
        /\ calls[Len(calls)].takeaways_count = takeaways_count
        /\ ret = last.data

\* C6: for an input that is empty or whitespace only no generate_sections
\* call is made and the endpoint is never invoked; the handler ends with the
\* warning to provide text, not with an error.
C6_BlankRejected ==
    NoWords(raw_text) =>
        /\ calls = <<>>
        /\ gen.invocations = 0
        /\ last.invocations = 0
        /\ ui.status = "none"
        /\ pc = "done" => ui.warnings = {"provide_text"}

\* a whitespace-only text was submitted and the handler ended with the warning
C6_Witness ==
    /\ pc = "done"
    /\ raw_text = <<NL, SP>>
    /\ ui.warnings = {"provide_text"}
    /\ calls = <<>>

----------------------------------------------------------------------------
(* _chunk_by_words on its own *)

\* the longest sentence list, and the longest fragment list, of the inputs
MaxSents == 3
MaxFrags == 4

\* all sequences over S of length at most n
SeqsUpTo(S, n) == UNION {[1..k -> S] : k \in 0..n}

RECURSIVE SumTo(_, _)
SumTo(lens, i) == IF i = 0 THEN 0 ELSE lens[i] + SumTo(lens, i - 1)

\* sentences of these word counts, over distinct words
Sentences(lens, messy) ==
    [i \in 1..Len(lens) |-> TextFrom(SumTo(lens, i - 1) + 1, lens[i], 0, messy)]

ChunkInputs ==
    {[sentences |-> Sentences(ls, m), target_chunk_words |-> t, overlap_words |-> o] :
        ls \in SeqsUpTo({0, 1, 2, 3}, MaxSents), m \in BOOLEAN,
        t \in {0, 1, 2, 4}, o \in {0, 1, 2, 5}}
        \cup {[sentences |-> Sentences(ls, FALSE), target_chunk_words |-> 2400,
               overlap_words |-> 200] :
                ls \in SeqsUpTo({1, 300, 2201, 2401}, MaxSents)}

InitChunk ==
    /\ pc = "ready"
    /\ args \in ChunkInputs
    /\ ret = <<>>
    /\ raw_text = <<>>
    /\ target_words = 0
    /\ takeaways_count = 0
    /\ n_words = 0
    /\ chunks = <<>>
    /\ mini_summaries = <<>>
    /\ phase = "none"
    /\ gen = NoCall
    /\ calls = <<>>
    /\ last = NoLast
    /\ ui = NoUi

ChunkCall ==
    /\ pc = "ready"
    /\ pc' = "done"
    /\ ret' = _chunk_by_words(args.sentences, args.target_chunk_words, args.overlap_words)
    /\ UNCHANGED <<raw_text, target_words, takeaways_count, n_words, chunks,
                   mini_summaries, phase, gen, calls, last, ui, args>>

SpecChunk == InitChunk /\ [][ChunkCall]_vars

----------------------------------------------------------------------------
(* _split_into_sentences on its own *)

\* fragments of these word counts, each ending with a terminal mark; in an
\* "open" text the last fragment has none, in a "dotted" one the first word
\* of the text holds a mark inside it
Fragments(lens, style) ==
    LET n == SumTo(lens, Len(lens))
        ends == {SumTo(lens, i) : i \in 1..Len(lens)} \ (IF style = "open" THEN {n} ELSE {})
        w(j) == Word(j, IF j \in ends THEN 1
                        ELSE IF j = 1 /\ style = "dotted" THEN 2 ELSE 0)
    IN  [i \in 1..(IF n = 0 THEN 0 ELSE 2 * n - 1) |->
            IF i % 2 = 1 THEN w((i + 1) \div 2) ELSE SP]

SplitInputs ==
    {Fragments(ls, st) : ls \in SeqsUpTo({1, 2, 3, 4, 5}, MaxFrags),
                         st \in {"closed", "open", "dotted"}}
        \cup {Text(n, 0, m) : n \in {0, 1, 29, 30, 31, 60, 61}, m \in BOOLEAN}
        \cup {<<Word(1, 3), SP, Word(2, 3), SP, Word(3, 1), SP, Word(4, 0)>>,
              <<Word(1, 3), SP, Word(2, 1), SP, Word(3, 0), SP, Word(4, 1)>>,
              <<Word(1, 3), SP, Word(2, 2), SP, Word(3, 3)>>}

InitSplit ==
    /\ pc = "ready"
    /\ args \in SplitInputs
    /\ ret = <<>>
    /\ raw_text = <<>>
    /\ target_words = 0
    /\ takeaways_count = 0
    /\ n_words = 0
    /\ chunks = <<>>
    /\ mini_summaries = <<>>
    /\ phase = "none"
    /\ gen = NoCall
    /\ calls = <<>>
    /\ last = NoLast
    /\ ui = NoUi

SplitCall ==
    /\ pc = "ready"
    /\ pc' = "done"
    /\ ret' = _split_into_sentences(args)
    /\ UNCHANGED <<raw_text, target_words, takeaways_count, n_words, chunks,
                   mini_summaries, phase, gen, calls, last, ui, args>>

SpecSplit == InitSplit /\ [][SplitCall]_vars

----------------------------------------------------------------------------
(* _proportional_words on its own *)

AllocInputs ==
    {[total_words |-> tw, chunk_words |-> cw, final_target |-> ft] :
        tw \in {0 - 5, 0, 1, 3, 7, 60, 1000, 3000},
        cw \in {0, 1, 2, 30, 500, 1000, 2400, 2600},
        ft \in {0 - 100, 0, 50, 100, 200, 250, 333, 2000, 3000}}

InitAlloc ==
    /\ pc = "ready"
    /\ args \in AllocInputs
    /\ ret = 0
    /\ raw_text = <<>>
    /\ target_words = 0
    /\ takeaways_count = 0
    /\ n_words = 0
    /\ chunks = <<>>
    /\ mini_summaries = <<>>
    /\ phase = "none"
    /\ gen = NoCall
    /\ calls = <<>>
    /\ last = NoLast
    /\ ui = NoUi

AllocCall ==
    /\ pc = "ready"
    /\ pc' = "done"
    /\ ret' = _proportional_words(args.total_words, args.chunk_words, args.final_target)
    /\ UNCHANGED <<raw_text, target_words, takeaways_count, n_words, chunks,
                   mini_summaries, phase, gen, calls, last, ui, args>>

SpecAlloc == InitAlloc /\ [][AllocCall]_vars

----------------------------------------------------------------------------
(* Properties of _chunk_by_words (SpecChunk) *)

\* the words of items[1..n], in order
RECURSIVE ConcatWords(_, _)
ConcatWords(items, n) ==
    IF n = 0 THEN <<>> ELSE ConcatWords(items, n - 1) \o split(items[n])

\* the length of chunk k's leading overlap: the last overlap_words words of
\* chunk k - 1, or all of them if it has fewer
OverlapLen(cs, k, overlap_words) ==
    IF k = 1 \/ overlap_words <= 0 THEN 0
    ELSE Min(overlap_words, Len(split(cs[k - 1])))

\* chunk k without its leading overlap (words)
Remainder(cs, k, overlap_words) ==
    LET w == split(cs[k])
    IN  SubSeq(w, OverlapLen(cs, k, overlap_words) + 1, Len(w))

\* the words ws stand together, in order, in the word sequence r
Within(ws, r) ==
    \E a \in 1..Len(r) :
        /\ r[a] = ws[1]
        /\ a + Len(ws) - 1 <= Len(r)
        /\ SubSeq(r, a, a + Len(ws) - 1) = ws

\* C7: no sentence is split across two chunks, every chunk after the first
\* starts with the last overlap_words words of the chunk before it (fewer if
\* that chunk is shorter), and the chunks without these leading overlaps,
\* concatenated, are the words of the sentence sequence, each once and in
\* order.
C7_ChunksCoverSentences ==
    pc = "done" =>
        LET o == args.overlap_words
            rest == [k \in 1..Len(ret) |-> Remainder(ret, k, o)]
        IN  /\ \A k \in 2..Len(ret) :
                  LET w == split(ret[k])
                      prev == split(ret[k - 1])
                      n == OverlapLen(ret, k, o)
                  IN  /\ n <= Len(w)
                      /\ SubSeq(w, 1, n) = SubSeq(prev, Len(prev) - n + 1, Len(prev))
            /\ ConcatWords(rest, Len(rest)) = ConcatWords(args.sentences, Len(args.sentences))
            /\ \A i \in 1..Len(args.sentences) :
                  split(args.sentences[i]) # <<>> =>
                      \E k \in 1..Len(ret) : Within(split(args.sentences[i]), rest[k])
            /\ \A k \in 1..Len(ret) : ret[k] = JoinWords(split(ret[k])) /\ ret[k] # <<>>

\* three chunks, the second one shorter than the overlap asked for, so that
\* the third starts with all of the second
C7_Witness ==
    /\ pc = "done"
    /\ Len(ret) >= 3
    /\ args.overlap_words > Len(split(ret[2]))
    /\ Len(split(ret[3])) > Len(split(ret[2]))

\* C8: with target_chunk_words = 2400 and overlap_words = 200, a chunk of
\* more than 2400 words exceeds 2400 by no more than the word count of one
\* of the sentences it holds; the words of its leading overlap count.
C8_ExcessWithinOneSentence ==
    (pc = "done" /\ args.target_chunk_words = 2400 /\ args.overlap_words = 200) =>
        \A k \in 1..Len(ret) :
            LET n == Len(split(ret[k]))
                r == Remainder(ret, k, 200)
            IN  n > 2400 =>
                    \E i \in 1..Len(args.sentences) :
                        /\ split(args.sentences[i]) # <<>>
                        /\ n - 2400 <= Len(split(args.sentences[i]))
                        /\ Within(split(args.sentences[i]), r)

\* a chunk that starts with 200 words of overlap and is over 2400 words
C8_Witness ==
    /\ pc = "done"
    /\ args.target_chunk_words = 2400
    /\ args.overlap_words = 200
    /\ \E k \in 2..Len(ret) :
          /\ Len(split(ret[k])) > 2400
          /\ OverlapLen(ret, k, 200) = 200

----------------------------------------------------------------------------
(* Properties of _split_into_sentences (SpecSplit) *)

\* the text holds none of . ! ?
Unpunctuated(s) == \A i \in 1..Len(s) : s[i] <= 0 \/ s[i] % 4 \in {0, 3}

\* C9 as stated: every element of the result is non-empty and no element
\* but the last has fewer than 4 words.
C9_NoShortSentence ==
    pc = "done" =>
        \A i \in 1..Len(ret) :
            /\ ret[i] # <<>>
            /\ i < Len(ret) => Len(split(ret[i])) >= 4

\* C9, amended: every element is non-empty and the elements hold the words
\* of the text in order; an element of fewer than 4 words is the last one or
\* is followed at once by an element of 4 or more words (a buffer of short
\* fragments is emitted as it is when a fragment of 4 or more words
\* arrives); in a text without terminal marks every element but the last
\* has exactly 30 words and the last has at most 30.
C9_ShortOnlyBeforeLong ==
    pc = "done" =>
        /\ \A i \in 1..Len(ret) :
              /\ ret[i] # <<>>
              /\ split(ret[i]) # <<>>
              /\ (i < Len(ret) /\ Len(split(ret[i])) < 4) => Len(split(ret[i + 1])) >= 4
        /\ ConcatWords(ret, Len(ret)) = split(args)
        /\ Unpunctuated(args) =>
              \A i \in 1..Len(ret) :
                  /\ Len(split(ret[i])) <= 30
                  /\ i < Len(ret) => Len(split(ret[i])) = 30

\* a result whose first element has fewer than 4 words and is not the last
C9_Witness ==
    /\ pc = "done"
    /\ Len(ret) >= 3
    /\ Len(split(ret[1])) < 4
    /\ Len(split(ret[2])) >= 4
    /\ Len(split(ret[3])) < 4

----------------------------------------------------------------------------
(* Properties of _proportional_words (SpecAlloc) *)

\* the integer part of a / b for b > 0
TruncDiv(a, b) == IF a >= 0 THEN a \div b ELSE 0 - ((0 - a) \div b)

\* clamped to [80, max(200, final_target)]
Clamp(alloc, final_target) == Max(80, Min(alloc, Max(200, final_target)))

\* the result lies in the interval, and the two examples of the text
AllocBasics ==
    /\ args.total_words > 0 =>
          ret >= 80 /\ ret <= Max(200, args.final_target)
    /\ args.total_words <= 0 =>
          /\ ret = Max(50, Min(args.final_target, 2000))
          /\ args.final_target = 200 => ret = 200
    /\ (args.total_words = 1000 /\ args.chunk_words = 500 /\ args.final_target = 200)
          => ret = 120

\* C10 as stated: for total_words > 0 and chunk_words >= 0 the result is the
\* integer part of final_target * (chunk_words / total_words) * 1.2, clamped
\* to [80, max(200, final_target)]; for total_words <= 0 it is final_target
\* clamped to [50, 2000].
C10_ExactProduct ==
    pc = "done" =>
        /\ AllocBasics
        /\ (args.total_words > 0 /\ args.chunk_words >= 0) =>
              ret = Clamp(TruncDiv(args.final_target * args.chunk_words * 6,
                                   args.total_words * 5), args.final_target)

\* C10, amended: the result lies in [80, max(200, final_target)] (and for
\* total_words <= 0 is final_target clamped to [50, 2000]); it is the clamped
\* integer part of the product computed in double precision, which is the
\* integer part of the exact product except that, where the exact product is
\* an integer, it may be the integer next to it towards zero.
C10_ProductInDoubles ==
    pc = "done" =>
        /\ AllocBasics
        /\ (args.total_words > 0 /\ args.chunk_words >= 0) =>
              LET num == args.final_target * args.chunk_words * 6
                  den == args.total_words * 5
                  exact == TruncDiv(num, den)
                  inner == IF exact > 0 THEN exact - 1
                           ELSE IF exact < 0 THEN exact + 1 ELSE 0
              IN  \/ ret = Clamp(exact, args.final_target)
                  \/ /\ num % den = 0
                     /\ ret = Clamp(inner, args.final_target)

\* a third of a 250 word target: the exact product is 100, the result is 99
C10_Witness ==
    /\ pc = "done"
    /\ args.total_words = 3000
    /\ args.chunk_words = 1000
    /\ args.final_target = 250
    /\ ret = 99

====
